---- MODULE Spec2Model ----
(***************************************************************************)
(* Titanic prediction pipeline: the Kubeflow DAG ingest -> process ->      *)
(* train (pipeline/kubeflow_pipeline.py), the Ingestion stage              *)
(* (src/data_ingestion.py), the Training stage (src/model_training.py)     *)
(* and the feature store both later stages share.                          *)
(*                                                                         *)
(* src/feature_store.py, src/data_processing.py and src/custom_exception.py*)
(* are not among the source files; RedisFeatureStore, DataProcessing and   *)
(* CustomException are modelled from the specification's words.            *)
(***************************************************************************)
EXTENDS Integers, Sequences, FiniteSets, TLC

\* ---------------------------------------------------------------- bounds
\* Rows of the source table public.titanic (ids 1..MaxRows) in a pipeline run.
MaxRows == 3
\* Entity ids in the store when the id-partition step is studied on its own.
MaxSplitIds == 6
\* Entity ids of the feature-store harness.
MaxStoreIds == 3
\* Calls of put in a run of the feature-store harness.
MaxPuts == 3

\* ------------------------------------------------------ program constants
\* test_size=0.2, as a percentage.
TestPct == 20

VARIABLES
    node, invoked,                                   \* pipeline executor
    ipc, table, df, trainFile, testFile, isteps, ifailedAt, icause, ierr,
    ppc, ppos, perr,                                 \* Processing stage
    store,                                           \* feature store
    tpc, entity_ids, train_entity_ids, test_entity_ids, train_data, test_data,
    lpos, warnings, tsteps, tfailedAt, tcause, terr, \* Training stage
    prev,                                            \* previous partition
    putLog, lastGet, lastKeys                        \* store harness

orchVars  == <<node, invoked>>
ingVars   == <<ipc, table, df, trainFile, testFile, isteps, ifailedAt, icause, ierr>>
procVars  == <<ppc, ppos, perr>>
trainVars == <<tpc, entity_ids, train_entity_ids, test_entity_ids, train_data,
               test_data, lpos, warnings, tsteps, tfailedAt, tcause, terr>>
harnVars  == <<prev, putLog, lastGet, lastKeys>>
vars == <<orchVars, ingVars, procVars, store, trainVars, harnVars>>

\* ------------------------------------------------------------- sequences
Range(s) == {s[i] : i \in DOMAIN s}

NoDup(s) == \A i, j \in DOMAIN s : i /= j => s[i] /= s[j]

\* Every sequence that lists each element of S exactly once.
RECURSIVE Enumerations(_)
Enumerations(S) ==
    IF S = {} THEN {<<>>}
    ELSE UNION {{<<x>> \o o : o \in Enumerations(S \ {x})} : x \in S}

IndexOf(s, x) == CHOOSE i \in DOMAIN s : s[i] = x

\* ------------------------------------------------------------ exceptions
NoError == [type |-> "none", msg |-> "", wraps |-> 0]

\* An exception raised by a library call.
Raised(type, msg) == [type |-> type, msg |-> msg, wraps |-> 0]

\* except Exception as e: raise CustomException(str(e)[, sys])
Wrap(e) == [type |-> "CustomException", msg |-> e.msg, wraps |-> e.wraps + 1]

RECURSIVE WrapN(_, _)
WrapN(e, n) == IF n = 0 THEN e ELSE WrapN(Wrap(e), n - 1)

\* --------------------------------------------------------- feature store
\* A store is a function from the entity ids present to their records.
EmptyStore == <<>>

\* A lookup that finds nothing.
None == [none |-> TRUE]

\* The FeatureRecord Processing derives for a row; it carries the label.
RecordOf(id) == [Fare |-> id, Survived |-> id % 2]

\* A second record for the same entity (a re-run of Processing).
RecordOf2(id) == [Fare |-> id + 10, Survived |-> (id + 1) % 2]

StoreKeepsFirst(s, id, r) ==
    IF id \in DOMAIN s THEN s ELSE [k \in DOMAIN s \cup {id} |-> IF k = id THEN r ELSE s[k]]

\* put(entity_id, record): stores or overwrites the record under entity_id.
store_features(s, id, r) ==
    [k \in DOMAIN s \cup {id} |-> IF k = id THEN r ELSE s[k]]

\* get(entity_id) -> record | absent.
get_features(s, id) == IF id \in DOMAIN s THEN s[id] ELSE None

\* keys(): the orders in which the store may enumerate its key set.
get_all_entity_ids(s) == Enumerations(DOMAIN s)

\* The store loses a key (eviction, or an external clear).
Evicted(s, id) == [k \in DOMAIN s \ {id} |-> s[k]]

\* Python truthiness of what get_features returns (`if features:`).
Truthy(f) == IF f = None THEN FALSE ELSE DOMAIN f /= {}

\* ------------------------------------------------------ train_test_split
\* The low byte of each of the first outputs of MT19937 seeded with 42
\* (numpy's RandomState(42)); random_interval masks an output to the bits of
\* its bound, so the low byte decides every draw for a bound below 256.
Mt19937Seed42 ==
    <<102, 179, 92, 14, 106, 71, 188, 20, 102, 121, 210, 214, 74, 202, 87, 116,
      99, 103, 151, 130, 149, 52, 1, 87>>

RECURSIVE MaskFrom(_, _)
MaskFrom(max, m) == IF m >= max THEN m ELSE MaskFrom(max, 2 * m + 1)

\* random_interval(max): rejection sampling of an output masked to max's bits.
RECURSIVE RandomInterval(_, _)
RandomInterval(max, pos) ==
    LET v == Mt19937Seed42[pos] % (MaskFrom(max, 0) + 1)
    IN  IF v <= max THEN [value |-> v, pos |-> pos + 1]
        ELSE RandomInterval(max, pos + 1)

\* RandomState.shuffle: for i in reversed(range(1, n)): swap a[i], a[j].
RECURSIVE Shuffle(_, _, _)
Shuffle(a, i, pos) ==
    IF i < 1 THEN a
    ELSE LET r == RandomInterval(i, pos)
             j == r.value
             b == [a EXCEPT ![i + 1] = a[j + 1], ![j + 1] = a[i + 1]]
         IN  Shuffle(b, i - 1, r.pos)

\* RandomState(42).permutation(n): a shuffle of 0..n-1.
Permutation(n) == Shuffle([k \in 1..n |-> k - 1], n - 1, 1)

\* ceil(test_size * n_samples)
NTest(n) == (TestPct * n + 99) \div 100

\* train_size is None: n_train = n_samples - n_test
NTrain(n) == n - NTest(n)

EmptyTrainSet ==
    Raised("ValueError", "the resulting train set will be empty")

SplitAllowsEmptyTrain(arr, perm) ==
    LET n == Len(arr)
    IN  [ok |-> TRUE, err |-> NoError,
         test  |-> [i \in 1..NTest(n) |-> arr[perm[i] + 1]],
         train |-> [i \in 1..NTrain(n) |-> arr[perm[NTest(n) + i] + 1]]]

\* train_test_split(arr, test_size=0.2[, random_state=42]) under the index
\* permutation its ShuffleSplit draws: the first n_test indices are the test
\* part, the next n_train the train part; an empty train part is an error.
train_test_split(arr, perm) ==
    LET n == Len(arr)
    IN  IF NTrain(n) = 0
        THEN [ok |-> FALSE, err |-> EmptyTrainSet, test |-> <<>>, train |-> <<>>]
        ELSE [ok |-> TRUE, err |-> NoError,
              test  |-> [i \in 1..NTest(n) |-> arr[perm[i] + 1]],
              train |-> [i \in 1..NTrain(n) |-> arr[perm[NTest(n) + i] + 1]]]

\* ------------------------------------------------- load_data_from_redis
FetchOneWithoutWarning(s, id, acc) ==
    IF Truthy(get_features(s, id))
    THEN [acc EXCEPT !.data = Append(@, get_features(s, id))]
    ELSE acc

FetchOneAbsentAsEmpty(s, id, acc) ==
    IF Truthy(get_features(s, id))
    THEN [acc EXCEPT !.data = Append(@, get_features(s, id))]
    ELSE [acc EXCEPT !.data = Append(@, None), !.warnings = @ + 1]

\* One iteration of the loop: a lookup the store answers appends the record
\* found, or logs the warning "Feature not found".
FetchOne(s, id, acc) ==
    IF Truthy(get_features(s, id))
    THEN [acc EXCEPT !.data = Append(@, get_features(s, id))]
    ELSE [acc EXCEPT !.warnings = @ + 1]

\* ----------------------------------------------------------- data frames
\* pd.DataFrame(list of records): its columns.
Columns(data) == UNION {DOMAIN data[i] : i \in DOMAIN data}

MissingLabel == Raised("KeyError", "['Survived'] not found in axis")

\* train_df.drop("Survived", axis=1), test_df.drop(...), train_df["Survived"],
\* test_df["Survived"]: a frame without the column raises KeyError.
Assemble(train, test) ==
    IF "Survived" \in Columns(train) /\ "Survived" \in Columns(test)
    THEN [ok |-> TRUE, err |-> NoError]
    ELSE [ok |-> FALSE, err |-> MissingLabel]

\* ------------------------------------------------------- Training stage
\* The steps of ModelTraining.run, in the order the code executes them.
TrainingSteps ==
    <<"setup", "enumerate", "split", "load_train", "load_test", "assemble",
      "start_run", "search", "log_params", "evaluate", "log_metrics", "log_model">>

\* The steps that only call mlflow or scikit-learn.
LibrarySteps ==
    {"setup", "start_run", "search", "log_params", "evaluate", "log_metrics", "log_model"}

\* What tpc becomes when a step completes.
AfterStep(steps, step) ==
    IF IndexOf(steps, step) = Len(steps) THEN "done" ELSE steps[IndexOf(steps, step) + 1]

\* The try/except blocks a failure of the step passes through on its way out
\* of run(): run alone; prepare_data or train_and_evaluate, then run;
\* load_data_from_redis or hyperparameter_tunning below those.
TrainWrapDepth(step) ==
    CASE step = "setup" -> 1
      [] step \in {"load_train", "load_test", "search"} -> 3
      [] OTHER -> 2

\* The exception a failing library or store call raises.
Cause(step) ==
    CASE step \in {"enumerate", "load_train", "load_test", "put"} ->
             Raised("ConnectionError", "Error connecting to redis")
      [] step = "search" -> Raised("ValueError", "fit failed")
      [] step \in {"connect", "query"} -> Raised("OperationalError", "connection failed")
      [] step \in {"write_train", "write_test", "load"} -> Raised("OSError", "cannot open file")
      [] step = "init" -> Raised("OSError", "cannot create the directory")
      [] OTHER -> Raised("MlflowException", "tracking failed")

TrainInit ==
    /\ tpc = "idle"
    /\ entity_ids = <<>>
    /\ train_entity_ids = <<>>
    /\ test_entity_ids = <<>>
    /\ train_data = <<>>
    /\ test_data = <<>>
    /\ lpos = 0
    /\ warnings = 0
    /\ tsteps = <<>>
    /\ tfailedAt = "none"
    /\ tcause = NoError
    /\ terr = NoError

TrainStepDone(step) ==
    /\ tpc' = AfterStep(TrainingSteps, step)
    /\ tsteps' = Append(tsteps, step)
    /\ UNCHANGED <<tfailedAt, tcause, terr>>

TrainSwallows(step, e) ==
    /\ tpc' = AfterStep(TrainingSteps, step)
    /\ tfailedAt' = step
    /\ tcause' = e
    /\ terr' = WrapN(e, TrainWrapDepth(step))
    /\ UNCHANGED tsteps

\* The step raises e; every enclosing except block logs it and raises
\* CustomException(str(e)), and run() ends.
TrainFails(step, e) ==
    /\ tpc' = "failed"
    /\ tfailedAt' = step
    /\ tcause' = e
    /\ terr' = WrapN(e, TrainWrapDepth(step))
    /\ UNCHANGED tsteps

\* mlflow.set_tracking_uri / set_experiment, mlflow.start_run / log_param,
\* RandomizedSearchCV.fit, log_param of the best parameters, predict and the
\* four scores, log_metric, log_model.
TrainLibraryStep ==
    \E step \in LibrarySteps :
        /\ tpc = step
        /\ \/ TrainStepDone(step)
           \/ TrainFails(step, Cause(step))
        /\ UNCHANGED <<entity_ids, train_entity_ids, test_entity_ids, train_data,
                       test_data, lpos, warnings>>
        /\ UNCHANGED <<orchVars, ingVars, procVars, store, harnVars>>

\* entity_ids = self.feature_store.get_all_entity_ids()
TrainEnumerate ==
    /\ tpc = "enumerate"
    /\ \/ /\ \E o \in get_all_entity_ids(store) : entity_ids' = o
          /\ TrainStepDone("enumerate")
       \/ /\ TrainFails("enumerate", Cause("enumerate"))
          /\ UNCHANGED entity_ids
    /\ UNCHANGED <<train_entity_ids, test_entity_ids, train_data, test_data, lpos, warnings>>
    /\ UNCHANGED <<orchVars, ingVars, procVars, store, harnVars>>

\* train_test_split(entity_ids, test_size=0.2, random_state=42)
TrainSplit ==
    /\ tpc = "split"
    /\ LET r == train_test_split(entity_ids, Permutation(Len(entity_ids)))
       IN  IF r.ok
           THEN /\ train_entity_ids' = r.train
                /\ test_entity_ids' = r.test
                /\ TrainStepDone("split")
           ELSE /\ TrainFails("split", r.err)
                /\ UNCHANGED <<train_entity_ids, test_entity_ids>>
    /\ UNCHANGED <<entity_ids, train_data, test_data, lpos, warnings>>
    /\ UNCHANGED <<orchVars, ingVars, procVars, store, harnVars>>

\* train_data = self.load_data_from_redis(train_entity_ids): the next
\* iteration of its loop, one get_features round trip to the shared store.
\* A lookup the store cannot answer raises; the warnings already logged stay.
TrainLoadTrain ==
    /\ tpc = "load_train"
    /\ lpos < Len(train_entity_ids)
    /\ \/ /\ train_data' =
                 FetchOne(store, train_entity_ids[lpos + 1],
                          [data |-> train_data, warnings |-> warnings]).data
          /\ warnings' =
                 FetchOne(store, train_entity_ids[lpos + 1],
                          [data |-> train_data, warnings |-> warnings]).warnings
          /\ lpos' = lpos + 1
          /\ UNCHANGED <<tpc, tsteps, tfailedAt, tcause, terr>>
       \/ /\ TrainFails("load_train", Cause("load_train"))
          /\ UNCHANGED <<train_data, warnings, lpos>>
    /\ UNCHANGED <<entity_ids, train_entity_ids, test_entity_ids, test_data>>
    /\ UNCHANGED <<orchVars, ingVars, procVars, store, harnVars>>

\* The loop over train_entity_ids is exhausted: return data.
TrainLoadTrainReturn ==
    /\ tpc = "load_train"
    /\ lpos = Len(train_entity_ids)
    /\ TrainStepDone("load_train")
    /\ lpos' = 0
    /\ UNCHANGED <<entity_ids, train_entity_ids, test_entity_ids, train_data,
                   test_data, warnings>>
    /\ UNCHANGED <<orchVars, ingVars, procVars, store, harnVars>>

\* test_data = self.load_data_from_redis(test_entity_ids): the next iteration.
TrainLoadTest ==
    /\ tpc = "load_test"
    /\ lpos < Len(test_entity_ids)
    /\ \/ /\ test_data' =
                 FetchOne(store, test_entity_ids[lpos + 1],
                          [data |-> test_data, warnings |-> warnings]).data
          /\ warnings' =
                 FetchOne(store, test_entity_ids[lpos + 1],
                          [data |-> test_data, warnings |-> warnings]).warnings
          /\ lpos' = lpos + 1
          /\ UNCHANGED <<tpc, tsteps, tfailedAt, tcause, terr>>
       \/ /\ TrainFails("load_test", Cause("load_test"))
          /\ UNCHANGED <<test_data, warnings, lpos>>
    /\ UNCHANGED <<entity_ids, train_entity_ids, test_entity_ids, train_data>>
    /\ UNCHANGED <<orchVars, ingVars, procVars, store, harnVars>>

\* The loop over test_entity_ids is exhausted: return data.
TrainLoadTestReturn ==
    /\ tpc = "load_test"
    /\ lpos = Len(test_entity_ids)
    /\ TrainStepDone("load_test")
    /\ UNCHANGED <<entity_ids, train_entity_ids, test_entity_ids, train_data,
                   test_data, lpos, warnings>>
    /\ UNCHANGED <<orchVars, ingVars, procVars, store, harnVars>>

\* ModelTraining.__init__: os.makedirs(model_save_path), outside every try
\* block, after the component built its RedisFeatureStore; an exception here
\* leaves the component as it is, unwrapped, before run() is entered.
TrainConstruct ==
    /\ tpc = "init"
    /\ \/ /\ tpc' = "setup"
          /\ UNCHANGED <<tfailedAt, tcause, terr>>
       \/ /\ tpc' = "failed"
          /\ tfailedAt' = "init"
          /\ tcause' = Cause("init")
          /\ terr' = Cause("init")
    /\ UNCHANGED <<entity_ids, train_entity_ids, test_entity_ids, train_data,
                   test_data, lpos, warnings, tsteps>>
    /\ UNCHANGED <<orchVars, ingVars, procVars, store, harnVars>>

\* The frames, the drop of the label column and the label vectors.
TrainAssemble ==
    /\ tpc = "assemble"
    /\ IF Assemble(train_data, test_data).ok
       THEN TrainStepDone("assemble")
       ELSE TrainFails("assemble", Assemble(train_data, test_data).err)
    /\ UNCHANGED <<entity_ids, train_entity_ids, test_entity_ids, train_data,
                   test_data, lpos, warnings>>
    /\ UNCHANGED <<orchVars, ingVars, procVars, store, harnVars>>

\* ------------------------------------------------------ Ingestion stage
\* The steps of DataIngestion.run: connect_to_db and the query of
\* extract_data, then the split and the two to_csv calls of save_data.
IngestionSteps == <<"connect", "query", "split", "write_train", "write_test">>

\* connect_to_db, extract_data and run each wrap; so do save_data and run.
IngestWrapDepth(step) == IF step = "connect" THEN 3 ELSE 2

\* A path with no file at it.
NoFile == [exists |-> FALSE, complete |-> FALSE, rows |-> <<>>, from |-> "none"]

\* A file an earlier run left at the path (makedirs(exist_ok=True) keeps it).
OldFile == [exists |-> TRUE, complete |-> TRUE, rows |-> <<>>, from |-> "earlier"]

\* A file to_csv wrote in full.
Written(rows) == [exists |-> TRUE, complete |-> TRUE, rows |-> rows, from |-> "this"]

\* A file to_csv created, or truncated, and did not finish.
Partial == [exists |-> TRUE, complete |-> FALSE, rows |-> <<>>, from |-> "this"]

\* The source tables: rows 1..k, for every k up to MaxRows.
Tables == {[i \in 1..k |-> i] : k \in 0..MaxRows}

\* What the two paths hold before the run: nothing, or an earlier run's file.
FilesInit ==
    /\ trainFile \in {NoFile, OldFile}
    /\ testFile \in {NoFile, OldFile}

IngestInit ==
    /\ ipc = "idle"
    /\ df = [all |-> <<>>, train |-> <<>>, test |-> <<>>]
    /\ isteps = <<>>
    /\ ifailedAt = "none"
    /\ icause = NoError
    /\ ierr = NoError

IngestStepDone(step) ==
    /\ ipc' = AfterStep(IngestionSteps, step)
    /\ isteps' = Append(isteps, step)
    /\ UNCHANGED <<ifailedAt, icause, ierr>>

\* The step raises e; every enclosing except block logs it and raises
\* CustomException(str(e), sys), and run() ends.
IngestFails(step, e) ==
    /\ ipc' = "failed"
    /\ ifailedAt' = step
    /\ icause' = e
    /\ ierr' = WrapN(e, IngestWrapDepth(step))
    /\ UNCHANGED isteps

\* DataIngestion.__init__: os.makedirs(output_dir, exist_ok=True), outside
\* every try block; an exception here leaves the component as it is,
\* unwrapped, before run() is entered. The files at the two paths stay.
IngestConstruct ==
    /\ ipc = "init"
    /\ \/ /\ ipc' = "connect"
          /\ UNCHANGED <<ifailedAt, icause, ierr>>
       \/ /\ ipc' = "failed"
          /\ ifailedAt' = "init"
          /\ icause' = Cause("init")
          /\ ierr' = Cause("init")
    /\ UNCHANGED <<table, df, trainFile, testFile, isteps>>
    /\ UNCHANGED <<orchVars, procVars, store, trainVars, harnVars>>

\* psycopg.connect(...)
IngestConnect ==
    /\ ipc = "connect"
    /\ \/ IngestStepDone("connect")
       \/ IngestFails("connect", Cause("connect"))
    /\ UNCHANGED <<table, df, trainFile, testFile>>
    /\ UNCHANGED <<orchVars, procVars, store, trainVars, harnVars>>

\* df = pd.read_sql_query("SELECT * FROM public.titanic", conn)
IngestQuery ==
    /\ ipc = "query"
    /\ \/ /\ df' = [df EXCEPT !.all = table]
          /\ IngestStepDone("query")
       \/ /\ IngestFails("query", Cause("query"))
          /\ UNCHANGED df
    /\ UNCHANGED <<table, trainFile, testFile>>
    /\ UNCHANGED <<orchVars, procVars, store, trainVars, harnVars>>

\* train_df, test_df = train_test_split(df, test_size=0.2): no random_state,
\* so the index permutation is any permutation.
IngestSplit ==
    /\ ipc = "split"
    /\ \E perm \in Enumerations(0..(Len(df.all) - 1)) :
           LET r == train_test_split(df.all, perm)
           IN  IF r.ok
               THEN /\ df' = [df EXCEPT !.train = r.train, !.test = r.test]
                    /\ IngestStepDone("split")
               ELSE /\ IngestFails("split", r.err)
                    /\ UNCHANGED df
    /\ UNCHANGED <<table, trainFile, testFile>>
    /\ UNCHANGED <<orchVars, procVars, store, trainVars, harnVars>>

WriteTestFirst ==
    /\ ipc = "write_train"
    /\ \/ /\ testFile' = Written(df.test)
          /\ trainFile' = trainFile
          /\ IngestStepDone("write_train")
       \/ /\ \/ testFile' = testFile
             \/ testFile' = Partial
          /\ trainFile' = trainFile
          /\ IngestFails("write_train", Cause("write_train"))
    /\ UNCHANGED <<table, df>>
    /\ UNCHANGED <<orchVars, procVars, store, trainVars, harnVars>>

\* train_df.to_csv(TRAIN_PATH, index=False); a failing write leaves the path
\* as it was or leaves a file it did not finish.
IngestWriteTrain ==
    /\ ipc = "write_train"
    /\ \/ /\ trainFile' = Written(df.train)
          /\ IngestStepDone("write_train")
       \/ /\ \/ trainFile' = trainFile
             \/ trainFile' = Partial
          /\ IngestFails("write_train", Cause("write_train"))
    /\ UNCHANGED <<table, df, testFile>>
    /\ UNCHANGED <<orchVars, procVars, store, trainVars, harnVars>>

\* test_df.to_csv(TEST_PATH, index=False)
IngestWriteTest ==
    /\ ipc = "write_test"
    /\ \/ /\ testFile' = Written(df.test)
          /\ IngestStepDone("write_test")
       \/ /\ \/ testFile' = testFile
             \/ testFile' = Partial
          /\ IngestFails("write_test", Cause("write_test"))
    /\ UNCHANGED <<table, df, trainFile>>
    /\ UNCHANGED <<orchVars, procVars, store, trainVars, harnVars>>

\* ----------------------------------------------------- Processing stage
\* Every row of the train file, then every row of the test file.
RowsToStore == trainFile.rows \o testFile.rows

ProcInit ==
    /\ ppc = "idle"
    /\ ppos = 0
    /\ perr = NoError

\* The component builds its RedisFeatureStore and its DataProcessing.
ProcConstruct ==
    /\ ppc = "init"
    /\ \/ /\ ppc' = "load"
          /\ UNCHANGED perr
       \/ /\ ppc' = "failed"
          /\ perr' = Cause("init")
    /\ UNCHANGED <<ppos, store>>
    /\ UNCHANGED <<orchVars, ingVars, trainVars, harnVars>>

\* Processing reads the two split files.
ProcLoad ==
    /\ ppc = "load"
    /\ \/ /\ ppc' = "put"
          /\ UNCHANGED perr
       \/ /\ ppc' = "failed"
          /\ perr' = Wrap(Cause("load"))
    /\ UNCHANGED <<ppos, store>>
    /\ UNCHANGED <<orchVars, ingVars, trainVars, harnVars>>

\* Processing puts the record of the next row under the row's entity id.
ProcPut ==
    /\ ppc = "put"
    /\ ppos < Len(RowsToStore)
    /\ \/ /\ store' = store_features(store, RowsToStore[ppos + 1],
                                     RecordOf(RowsToStore[ppos + 1]))
          /\ ppos' = ppos + 1
          /\ UNCHANGED <<ppc, perr>>
       \/ /\ ppc' = "failed"
          /\ perr' = Wrap(Cause("put"))
          /\ UNCHANGED <<ppos, store>>
    /\ UNCHANGED <<orchVars, ingVars, trainVars, harnVars>>

\* Every row is stored: the stage completes.
ProcDone ==
    /\ ppc = "put"
    /\ ppos = Len(RowsToStore)
    /\ ppc' = "done"
    /\ UNCHANGED <<ppos, perr, store>>
    /\ UNCHANGED <<orchVars, ingVars, trainVars, harnVars>>

\* ------------------------------------------------------------- pipeline
Nodes == {"ingest", "process", "train"}

AfterNothing(n) == {}

AfterSkipsProcess(n) ==
    CASE n = "ingest"  -> {}
      [] n = "process" -> {"ingest"}
      [] n = "train"   -> {"ingest"}

\* step_process = ...().after(step_ingest); step_train = ...().after(step_process)
After(n) ==
    CASE n = "ingest"  -> {}
      [] n = "process" -> {"ingest"}
      [] n = "train"   -> {"process"}

\* Where the node's stage stands: idle, a step, done or failed.
StagePc(n) ==
    CASE n = "ingest"  -> ipc
      [] n = "process" -> ppc
      [] n = "train"   -> tpc

OrchInit ==
    /\ node = [n \in Nodes |-> "pending"]
    /\ invoked = [n \in Nodes |-> 0]

\* The executor starts a node whose predecessors have all succeeded; the
\* component is about to build its stage object.
StartNode ==
    \E n \in Nodes :
        /\ node[n] = "pending"
        /\ \A p \in After(n) : node[p] = "succeeded"
        /\ node' = [node EXCEPT ![n] = "running"]
        /\ invoked' = [invoked EXCEPT ![n] = @ + 1]
        /\ ipc' = IF n = "ingest" THEN "init" ELSE ipc
        /\ ppc' = IF n = "process" THEN "init" ELSE ppc
        /\ tpc' = IF n = "train" THEN "init" ELSE tpc
        /\ UNCHANGED <<table, df, trainFile, testFile, isteps, ifailedAt, icause, ierr>>
        /\ UNCHANGED <<ppos, perr, store, harnVars>>
        /\ UNCHANGED <<entity_ids, train_entity_ids, test_entity_ids, train_data,
                       test_data, lpos, warnings, tsteps, tfailedAt, tcause, terr>>

\* run() returned, or its exception left the component: the node is marked.
FinishNode ==
    \E n \in Nodes :
        /\ node[n] = "running"
        /\ StagePc(n) \in {"done", "failed"}
        /\ node' = [node EXCEPT ![n] = IF StagePc(n) = "done" THEN "succeeded" ELSE "failed"]
        /\ UNCHANGED <<invoked, ingVars, procVars, store, trainVars, harnVars>>

\* A key leaves the store while Training has yet to read it.
Evict ==
    /\ tpc \in {"init", "setup", "enumerate", "split", "load_train", "load_test"}
    /\ \E id \in DOMAIN store : store' = Evicted(store, id)
    /\ UNCHANGED <<orchVars, ingVars, procVars, trainVars, harnVars>>

HarnInit ==
    /\ prev = [set |-> FALSE, ids |-> {}, train |-> {}, test |-> {}]
    /\ putLog = <<>>
    /\ lastGet = [set |-> FALSE, id |-> 0, value |-> None]
    /\ lastKeys = [set |-> FALSE, keys |-> <<>>]

\* ------------------------------------------------- the pipeline's run
Init ==
    /\ OrchInit
    /\ table \in Tables
    /\ FilesInit
    /\ IngestInit
    /\ ProcInit
    /\ store = EmptyStore
    /\ TrainInit
    /\ HarnInit

Next ==
    \/ StartNode
    \/ FinishNode
    \/ IngestConstruct
    \/ IngestConnect
    \/ IngestQuery
    \/ IngestSplit
    \/ IngestWriteTrain
    \/ IngestWriteTest
    \/ ProcConstruct
    \/ ProcLoad
    \/ ProcPut
    \/ ProcDone
    \/ TrainConstruct
    \/ TrainLibraryStep
    \/ TrainEnumerate
    \/ TrainSplit
    \/ TrainLoadTrain
    \/ TrainLoadTrainReturn
    \/ TrainLoadTest
    \/ TrainLoadTestReturn
    \/ TrainAssemble
    \/ Evict

Spec == Init /\ [][Next]_vars

\* ------------------------- the id-partition step, in two runs of Training
\* A store that holds the records of the ids in S.
StoreOf(S) == [k \in S |-> RecordOf(k)]

SplitInit ==
    /\ OrchInit
    /\ table = <<>>
    /\ trainFile = NoFile
    /\ testFile = NoFile
    /\ IngestInit
    /\ ProcInit
    /\ store \in {StoreOf(S) : S \in SUBSET (1..MaxSplitIds)}
    /\ TrainInit
    /\ HarnInit

\* The training script is started over the store: its ModelTraining is about
\* to be constructed, and run() reaches prepare_data after its mlflow setup.
RunStart ==
    /\ tpc = "idle"
    /\ tpc' = "init"
    /\ UNCHANGED <<entity_ids, train_entity_ids, test_entity_ids, train_data,
                   test_data, lpos, warnings, tsteps, tfailedAt, tcause, terr>>
    /\ UNCHANGED <<orchVars, ingVars, procVars, store, harnVars>>

\* The partition this execution of the script computed is kept, and the
\* script is started a second time over the same store: a new ModelTraining,
\* whose run() has executed nothing yet.
RunAgain ==
    /\ ~prev.set
    /\ tpc = "load_train"
    /\ lpos = 0
    /\ prev' = [set |-> TRUE, ids |-> Range(entity_ids),
                train |-> Range(train_entity_ids), test |-> Range(test_entity_ids)]
    /\ tpc' = "init"
    /\ entity_ids' = <<>>
    /\ train_entity_ids' = <<>>
    /\ test_entity_ids' = <<>>
    /\ tsteps' = <<>>
    /\ UNCHANGED <<train_data, test_data, lpos, warnings, tfailedAt, tcause, terr>>
    /\ UNCHANGED <<putLog, lastGet, lastKeys>>
    /\ UNCHANGED <<orchVars, ingVars, procVars, store>>

\* __init__, the setup of run(), and the first two statements of prepare_data.
SplitNext ==
    \/ RunStart
    \/ TrainConstruct
    \/ TrainLibraryStep
    \/ TrainEnumerate
    \/ TrainSplit
    \/ RunAgain

SplitSpec == SplitInit /\ [][SplitNext]_vars

\* ------------------------------------------- the feature store's contract
StoreIds == 1..MaxStoreIds

\* The record the last put of id stored, None when id was never put.
RECURSIVE LastPut(_, _)
LastPut(log, id) ==
    IF log = <<>> THEN None
    ELSE IF log[Len(log)].id = id THEN log[Len(log)].record
    ELSE LastPut(SubSeq(log, 1, Len(log) - 1), id)

PutIds(log) == {log[i].id : i \in DOMAIN log}

\* put(id, r)
StorePut ==
    /\ Len(putLog) < MaxPuts
    /\ \E id \in StoreIds : \E r \in {RecordOf(id), RecordOf2(id)} :
           /\ store' = store_features(store, id, r)
           /\ putLog' = Append(putLog, [id |-> id, record |-> r])
    /\ lastGet' = [set |-> FALSE, id |-> 0, value |-> None]
    /\ lastKeys' = [set |-> FALSE, keys |-> <<>>]
    /\ UNCHANGED <<orchVars, ingVars, procVars, trainVars, prev>>

\* get(id)
StoreGet ==
    /\ \E id \in StoreIds :
           lastGet' = [set |-> TRUE, id |-> id, value |-> get_features(store, id)]
    /\ UNCHANGED <<orchVars, ingVars, procVars, store, trainVars, prev, putLog, lastKeys>>

\* keys()
StoreKeys ==
    /\ \E o \in get_all_entity_ids(store) : lastKeys' = [set |-> TRUE, keys |-> o]
    /\ UNCHANGED <<orchVars, ingVars, procVars, store, trainVars, prev, putLog, lastGet>>

StoreInit ==
    /\ OrchInit
    /\ table = <<>>
    /\ trainFile = NoFile
    /\ testFile = NoFile
    /\ IngestInit
    /\ ProcInit
    /\ store = EmptyStore
    /\ TrainInit
    /\ HarnInit

StoreNext ==
    \/ StorePut
    \/ StoreGet
    \/ StoreKeys

StoreSpec == StoreInit /\ [][StoreNext]_vars

\* ================================================================ claims
Prefix(s, n) == SubSeq(s, 1, n)

Abs(x) == IF x < 0 THEN -x ELSE x

\* C1 (fail-fast DAG): once Ingestion has failed, Processing and Training
\* were never invoked and none of their steps ran; once Processing has
\* failed, Training was never invoked; and a failed node was invoked once.
C1_FailFast ==
    /\ node["ingest"] = "failed" =>
           /\ invoked["process"] = 0 /\ invoked["train"] = 0
           /\ ppc = "idle" /\ tpc = "idle" /\ tsteps = <<>>
           /\ node["process"] = "pending" /\ node["train"] = "pending"
    /\ node["process"] = "failed" =>
           /\ invoked["train"] = 0 /\ tpc = "idle" /\ tsteps = <<>>
           /\ node["train"] = "pending"
    /\ \A n \in Nodes : node[n] = "failed" => invoked[n] = 1

\* Ingestion failed and the executor has marked its node.
C1_Witness == node["ingest"] = "failed" /\ ifailedAt = "write_test"

\* C2 (stage ordering): Processing has started only if Ingestion succeeded,
\* Training only if Processing succeeded; at most one of the three stages is
\* executing; and no stage is invoked more than once.
C2_StageOrder ==
    /\ invoked["process"] > 0 => node["ingest"] = "succeeded"
    /\ invoked["train"] > 0 => node["process"] = "succeeded"
    /\ Cardinality({n \in Nodes : node[n] = "running"}) <= 1
    /\ Cardinality({n \in Nodes : StagePc(n) \notin {"idle", "done", "failed"}}) <= 1
    /\ \A n \in Nodes : invoked[n] <= 1

\* Training is executing, after the two stages before it.
C2_Witness == node["train"] = "running" /\ tpc = "search"

\* The id-partition step has acted: it returned the two lists or it raised.
SplitActed == tpc = "load_train" \/ tfailedAt = "split"

\* The two lists partition the enumerated ids, which are the store's keys, in
\* sizes within rounding of 20% and 80%.
PartitionOK ==
    /\ Range(train_entity_ids) \cap Range(test_entity_ids) = {}
    /\ Range(train_entity_ids) \cup Range(test_entity_ids) = Range(entity_ids)
    /\ Range(entity_ids) = DOMAIN store
    /\ NoDup(train_entity_ids) /\ NoDup(test_entity_ids)
    /\ Len(train_entity_ids) + Len(test_entity_ids) = Len(entity_ids)
    /\ Abs(100 * Len(test_entity_ids) - TestPct * Len(entity_ids)) < 100
    /\ Abs(100 * Len(train_entity_ids) - (100 - TestPct) * Len(entity_ids)) < 100

\* C3 as claimed (split disjointness and ratio, for every N >= 0): whenever
\* the id-partition step has acted, it yielded a train list and a test list
\* that partition the enumerated ids in sizes within rounding of 80% / 20%.
C3_Original == SplitActed => (tpc = "load_train" /\ PartitionOK)

\* C3 as amended: for N >= 2 the step yields such a partition, with
\* ceil(0.2 N) test ids; for N = 0 and N = 1 it yields nothing: the split
\* raises ValueError (empty train set) and prepare_data ends in the wrapped
\* CustomException.
C3_Amended ==
    SplitActed =>
        IF Len(entity_ids) >= 2
        THEN /\ tpc = "load_train"
             /\ PartitionOK
             /\ 100 * Len(test_entity_ids) >= TestPct * Len(entity_ids)
             /\ 100 * (Len(test_entity_ids) - 1) < TestPct * Len(entity_ids)
        ELSE /\ tpc = "failed"
             /\ tfailedAt = "split"
             /\ tcause = EmptyTrainSet
             /\ terr.type = "CustomException"
             /\ train_entity_ids = <<>> /\ test_entity_ids = <<>>

\* A store of at least six ids was partitioned, two of them for the test.
C3_Witness == tpc = "load_train" /\ Len(test_entity_ids) = 2 /\ Len(train_entity_ids) >= 4

\* C4 (reproducibility): two invocations of the id-partition step over the
\* same set of entity ids, with the seed 42, yield the same train id set and
\* the same test id set, in whatever order the store enumerates the ids.
C4_Reproducible ==
    (prev.set /\ tpc = "load_train" /\ prev.ids = Range(entity_ids)) =>
        /\ Range(train_entity_ids) = prev.train
        /\ Range(test_entity_ids) = prev.test

\* Training has fetched both partitions and one of them holds no record.
EmptyPartition ==
    /\ "load_test" \in Range(tsteps)
    /\ train_data = <<>> \/ test_data = <<>>

\* No step after the assembly has run.
NothingAfterAssemble ==
    Range(tsteps) \cap
        {"start_run", "search", "log_params", "evaluate", "log_metrics", "log_model"} = {}

\* C5 (empty-partition rejection): with an empty train or test partition
\* after the absent ids were skipped, Training fails at the assembly with a
\* DataIntegrityError, and the search, the evaluation and the registration
\* are never reached.
C5_EmptyPartitionRejected ==
    (EmptyPartition /\ tpc /= "assemble") =>
        /\ tpc = "failed" /\ tfailedAt = "assemble"
        /\ terr.type = "DataIntegrityError"
        /\ NothingAfterAssemble

\* The entity id a record was derived from.
IdOf(record) == record.Fare

\* The records are records of ids of the list, in the order of the list.
InOrderOf(data, ids) ==
    /\ \A i \in DOMAIN data : "Fare" \in DOMAIN data[i]
    /\ \A i \in DOMAIN data : data[i] = RecordOf(IdOf(data[i]))
    /\ [i \in DOMAIN data |-> IdOf(data[i])]
           = SelectSeq(ids, LAMBDA id : \E i \in DOMAIN data : IdOf(data[i]) = id)

\* One lookup of the batch fetch: the record is appended if and only if the
\* store holds one for the id at the lookup.
LookupAppends(ids, data, dataAfter) ==
    IF ids[lpos + 1] \in DOMAIN store
    THEN dataAfter = Append(data, store[ids[lpos + 1]])
    ELSE dataAfter = data

\* C6 (absence is non-fatal): a batch fetch returns, in the order of the
\* requested ids, exactly the records of the ids the store held when each was
\* looked up, and omits an id if and only if the store held no record of it
\* then (never written, or evicted); it returns only after every id was
\* looked up, and it raises only when the store cannot be reached.
C6_AbsenceNonFatal ==
    /\ [](InOrderOf(train_data, train_entity_ids) /\ InOrderOf(test_data, test_entity_ids))
    /\ [][ /\ (tpc = "load_train" /\ lpos' = lpos + 1) =>
                  LookupAppends(train_entity_ids, train_data, train_data')
           /\ (tpc = "load_train" /\ tpc' = "load_test") =>
                  train_data' = train_data /\ lpos = Len(train_entity_ids)
           /\ (tpc = "load_test" /\ lpos' = lpos + 1) =>
                  LookupAppends(test_entity_ids, test_data, test_data')
           /\ (tpc = "load_test" /\ tpc' = "assemble") =>
                  test_data' = test_data /\ lpos = Len(test_entity_ids)
           /\ (tpc \in {"load_train", "load_test"} /\ tpc' = "failed") =>
                  tcause'.type = "ConnectionError"
         ]_vars

\* A fetch returned some records and omitted an absent id, without raising.
C6_Witness ==
    /\ "load_train" \in Range(tsteps)
    /\ train_data /= <<>>
    /\ Len(train_data) < Len(train_entity_ids)

\* C7 (missing-count observability): when a batch fetch returns, the number
\* of "Feature not found" warnings it logged is the number of requested ids
\* minus the number of records returned (while it runs: the ids looked up so
\* far minus the records found so far).
C7_MissingCount ==
    /\ "load_train" \notin Range(tsteps) => warnings = lpos - Len(train_data)
    /\ "load_train" \in Range(tsteps) =>
           warnings = (Len(train_entity_ids) - Len(train_data))
                        + (lpos - Len(test_data))
    /\ "load_test" \in Range(tsteps) =>
           warnings = (Len(train_entity_ids) - Len(train_data))
                        + (Len(test_entity_ids) - Len(test_data))

\* Both fetches are done and ids were missing from each.
C7_Witness ==
    /\ "load_test" \in Range(tsteps)
    /\ Len(train_data) < Len(train_entity_ids)
    /\ Len(test_data) < Len(test_entity_ids)
    /\ warnings >= 2

\* The steps that ran are the stage's steps before the failing one, each once.
RanUpTo(steps, ran, failedAt) ==
    /\ failedAt \in Range(steps)
    /\ ran = Prefix(steps, IndexOf(steps, failedAt) - 1)

\* C8 (wrap and propagate, no recovery): a failing step of run() in
\* Ingestion or in Training ends run() in one CustomException that carries
\* the original message; the steps that ran are exactly those before the
\* failing step, each once; and the stage does not report success after a
\* failure. (A stage whose constructor raised never entered run().)
C8_WrapAndPropagate ==
    /\ ifailedAt \notin {"none", "init"} =>
           /\ ipc = "failed"
           /\ ierr.type = "CustomException" /\ ierr.msg = icause.msg
           /\ ierr.wraps = IngestWrapDepth(ifailedAt)
           /\ RanUpTo(IngestionSteps, isteps, ifailedAt)
           /\ node["ingest"] /= "succeeded"
    /\ ifailedAt = "init" => ipc = "failed" /\ isteps = <<>> /\ node["ingest"] /= "succeeded"
    /\ ifailedAt = "none" =>
           /\ ipc /= "failed" /\ ierr = NoError
           /\ isteps = Prefix(IngestionSteps, Len(isteps))
    /\ node["ingest"] = "succeeded" => isteps = IngestionSteps
    /\ tfailedAt \notin {"none", "init"} =>
           /\ tpc = "failed"
           /\ terr.type = "CustomException" /\ terr.msg = tcause.msg
           /\ terr.wraps = TrainWrapDepth(tfailedAt)
           /\ RanUpTo(TrainingSteps, tsteps, tfailedAt)
           /\ node["train"] /= "succeeded"
    /\ tfailedAt = "init" => tpc = "failed" /\ tsteps = <<>> /\ node["train"] /= "succeeded"
    /\ tfailedAt = "none" =>
           /\ tpc /= "failed" /\ terr = NoError
           /\ tsteps = Prefix(TrainingSteps, Len(tsteps))
    /\ node["train"] = "succeeded" => tsteps = TrainingSteps

\* The search failed in the middle of Training and the node is marked failed.
C8_Witness ==
    /\ tfailedAt = "search" /\ node["train"] = "failed"
    /\ terr = [type |-> "CustomException", msg |-> "fit failed", wraps |-> 3]

\* C9 (idempotent overwrite): get(id) returns the record of the last put of
\* id (absent when there was none), and the enumerated keys list each id
\* that was put exactly once and nothing else.
C9_IdempotentOverwrite ==
    /\ lastGet.set => lastGet.value = LastPut(putLog, lastGet.id)
    /\ lastKeys.set =>
           /\ NoDup(lastKeys.keys)
           /\ Range(lastKeys.keys) = PutIds(putLog)

\* put(1, r1), put(1, r2), then get(1) and keys().
C9_Witness ==
    /\ Len(putLog) = 2
    /\ putLog[1].id = 1 /\ putLog[2].id = 1 /\ putLog[1].record /= putLog[2].record
    /\ lastGet.set /\ lastGet.id = 1 /\ lastGet.value = putLog[2].record
    /\ lastKeys.set /\ lastKeys.keys = <<1>>

\* C10 (Ingestion writes without rollback): the train file is written only
\* by the first write of save_data and the test file only by the second,
\* after it; a failed extraction (or split) leaves both paths as they were;
\* a failed write of the test file ends the stage in the wrapped error with
\* the train file of this run in place, never removed, and no complete test
\* file of this run.
C10_NoRollback ==
    /\ [] /\ testFile.from = "this" => trainFile = Written(df.train)
          /\ ifailedAt \in {"init", "connect", "query", "split"} =>
                 trainFile.from /= "this" /\ testFile.from /= "this"
          /\ ifailedAt = "write_test" =>
                 /\ ipc = "failed"
                 /\ ierr.type = "CustomException"
                 /\ trainFile = Written(df.train) /\ trainFile.rows /= <<>>
                 /\ testFile /= Written(df.test)
                 /\ node["ingest"] /= "succeeded"
    /\ [][ /\ trainFile' /= trainFile => ipc = "write_train"
           /\ testFile' /= testFile => ipc = "write_test"
         ]_vars

\* Ingestion failed and left a train file with no test file beside it.
C10_Witness ==
    /\ node["ingest"] = "failed" /\ ifailedAt = "write_test"
    /\ trainFile.from = "this" /\ trainFile.complete /\ ~testFile.exists

====
